---- MODULE Spec2Model ----
(***************************************************************************)
(* A model of flip/gridding.py: the regular grid constructors, the mass    *)
(* assignment kernels, attribute_weight_density, grid_data_density,        *)
(* cut_grid and the entry of compute_grid_window.                          *)
(*                                                                         *)
(* Numbers.  Lengths are integers in a fine unit; a grid_size of 2 lets a  *)
(* tracer sit half a cell from a voxel centre.  Real-valued quantities     *)
(* (normalised separations, kernel weights, weight sums, densities) are    *)
(* exact rationals <<num, den>> in lowest terms with den > 0, so equality  *)
(* of values is equality of tuples.  Floating-point rounding is not        *)
(* modelled.                                                               *)
(***************************************************************************)
EXTENDS Integers, Sequences, FiniteSets, TLC

(* ------------------------------------------------------------------ *)
(* Exact rational arithmetic                                           *)
(* ------------------------------------------------------------------ *)

Abs(n) == IF n < 0 THEN -n ELSE n

RECURSIVE Gcd(_, _)
Gcd(a, b) == IF b = 0 THEN a ELSE Gcd(b, a % b)

Rat(n, d) ==
    LET s == IF d < 0 THEN -1 ELSE 1
        g == Gcd(Abs(n), Abs(d))
    IN  <<(s * n) \div g, (s * d) \div g>>

RInt(n) == <<n, 1>>
RAdd(a, b) ==
    LET g == Gcd(a[2], b[2])
    IN  Rat(a[1] * (b[2] \div g) + b[1] * (a[2] \div g), a[2] * (b[2] \div g))
RNeg(a) == <<-a[1], a[2]>>
RSub(a, b) == RAdd(a, RNeg(b))
RMul(a, b) ==
    LET x == Rat(a[1], b[2])
        y == Rat(b[1], a[2])
    IN  <<x[1] * y[1], x[2] * y[2]>>
RAbs(a) == <<Abs(a[1]), a[2]>>
RLt(a, b) == a[1] * b[2] < b[1] * a[2]
RLe(a, b) == a[1] * b[2] <= b[1] * a[2]
\* a is in lowest terms, and so is its square
RSq(a) == <<a[1] * a[1], a[2] * a[2]>>
RCube(a) == RMul(a, RMul(a, a))
\* a numpy boolean used as a factor: True is 1, False is 0
RBool(b) == IF b THEN <<1, 1>> ELSE <<0, 1>>

\* the array a, held as a tuple of its values
Mat(a) == a \o <<>>

(* ------------------------------------------------------------------ *)
(* Assignment kernels                                                  *)
(* ------------------------------------------------------------------ *)

GRID_KIND == <<"ngp", "ngp_errw", "cic", "tsc", "pcs">>
GridKinds == {GRID_KIND[i] : i \in DOMAIN GRID_KIND}

ngp_weight(ds) ==
    LET abs_ds == RAbs(ds)
    IN  RMul(RInt(1), RBool(RLt(abs_ds, <<1, 2>>)))

ngp_errw_weight(ds) == ngp_weight(ds)

\* 1 - ds where the code has 1 - abs(ds)
cic_weight_signed(ds) ==
    RMul(RSub(RInt(1), ds), RBool(RLt(RAbs(ds), RInt(1))))

cic_weight(ds) ==
    LET abs_ds == RAbs(ds)
    IN  RMul(RSub(RInt(1), abs_ds), RBool(RLt(abs_ds, RInt(1))))

tsc_weight(ds) ==
    LET abs_ds == RAbs(ds)
        w == RMul(RSub(<<3, 4>>, RSq(ds)), RBool(RLt(abs_ds, <<1, 2>>)))
    IN  RAdd(w, RMul(RMul(<<1, 2>>, RSq(RSub(<<3, 2>>, abs_ds))),
                     RBool(RLe(<<1, 2>>, abs_ds) /\ RLt(abs_ds, <<3, 2>>))))

pcs_weight(ds) ==
    LET abs_ds == RAbs(ds)
        w == RMul(RMul(<<1, 6>>,
                       RAdd(RSub(RInt(4), RMul(RInt(6), RSq(ds))),
                            RMul(RInt(3), RCube(abs_ds)))),
                  RBool(RLt(abs_ds, RInt(1))))
    IN  RAdd(w, RMul(RMul(<<1, 6>>, RCube(RSub(RInt(2), abs_ds))),
                     RBool(RLe(RInt(1), abs_ds) /\ RLt(abs_ds, RInt(2)))))

\* globals()[kind + "_weight"]
weight_fun(kind, ds) ==
    CASE kind = "ngp" -> ngp_weight(ds)
      [] kind = "ngp_errw" -> ngp_errw_weight(ds)
      [] kind = "cic" -> cic_weight(ds)
      [] kind = "tsc" -> tsc_weight(ds)
      [] kind = "pcs" -> pcs_weight(ds)

(* ------------------------------------------------------------------ *)
(* Inputs                                                              *)
(* ------------------------------------------------------------------ *)

\* the names of the three branches on random_method
RANDOM_METHODS == {"choice", "healpix", "cartesian"}

MaxRcom == 3
MaxOps == 2
\* tracer offsets are multiples of 1 / OffsetDen of a cell, the lattice points of an
\* axis are -MaxVoxel .. MaxVoxel
OffsetDen == 4
MaxVoxel == 3
\* the catalogues handed to attribute_weight_density alone have up to MaxTracers tracers
MaxTracers == 3

GridSizes == {2, 4}
RcomMaxes == 1 .. MaxRcom
KindNames == {"ngp", "ngp_errw", "cic", "tsc", "pcs", "bogus", "NGP", "Cic", "BOGUS"}
MethodNames == RANDOM_METHODS \cup {"bogus"}

\* Tracer positions in half cells: a voxel centre (the origin), a point half a cell
\* from two centres, and centres off the origin.  All have y >= 0.
HalfCells == {<<0, 0, 0>>, <<1, 0, 0>>, <<2, 0, 0>>, <<2, 2, 0>>, <<-2, 0, 2>>}
Catalogs == {<<>>, <<<<0, 0, 0>>>>, <<<<1, 0, 0>>>>, <<<<2, 2, 0>>>>,
             <<<<0, 0, 0>>, <<2, 0, 0>>>>, <<<<1, 0, 0>>, <<-2, 0, 2>>>>}
\* the position, in length units, of the point h half cells of size grid_size out
place(h, grid_size) ==
    <<(h[1] * grid_size) \div 2, (h[2] * grid_size) \div 2, (h[3] * grid_size) \div 2>>
catalog(c, grid_size) == [i \in DOMAIN c |-> place(c[i], grid_size)]
Universe(grid_size) == {place(h, grid_size) : h \in HalfCells}
\* where the tracers handed to attribute_weight_density alone sit: a voxel centre, the
\* next centre along x and the point half way between them
TracerPlaces(grid_size) == {place(h, grid_size) : h \in {<<0, 0, 0>>, <<1, 0, 0>>, <<2, 0, 0>>}}

\* tracer offsets within one cell either side of the lattice point 0
Offsets == {Rat(n, OffsetDen) : n \in (0 - OffsetDen) .. OffsetDen}
\* (grid_coord - obj_coord) / grid_size over the lattice points of one axis
separations(obj) ==
    Mat([k \in 1 .. (2 * MaxVoxel + 1) |-> RSub(RInt(k - 1 - MaxVoxel), obj)])

\* the normalised separations (grid coordinate - object coordinate) / grid_size the
\* inputs give rise to: k - u / 2 for a lattice index k and a half-cell count u
MaxHalf == CHOOSE m \in 0 .. 9 : /\ \E p \in HalfCells : \E c \in 1 .. 3 : Abs(p[c]) = m
                                /\ \A p \in HalfCells : \A c \in 1 .. 3 : Abs(p[c]) <= m
DsVals == {Rat(n, 2) : n \in (0 - 2 * MaxRcom - MaxHalf) .. (2 * MaxRcom + MaxHalf)}

\* weight_fun on those separations, evaluated once
weight_tab == [k \in GridKinds, ds \in DsVals |-> weight_fun(k, ds)]

(* ------------------------------------------------------------------ *)
(* Values of the per-voxel arrays                                      *)
(* ------------------------------------------------------------------ *)

\* A float that may be nan or inf: <<"fin", n, d>> is n/d in lowest terms,
\* <<"inf", s, 0>> is s * infinity (s = 1 or -1), <<"nan", 0, 0>> is nan.
XFin(r) == <<"fin", r[1], r[2]>>
XInf(s) == <<"inf", s, 0>>
XNan == <<"nan", 0, 0>>
XRat(x) == <<x[2], x[3]>>
XSign(x) == IF x[2] < 0 THEN -1 ELSE IF x[2] > 0 THEN 1 ELSE 0
isnan(x) == x[1] = "nan"
isfinite(x) == x[1] = "fin"

\* IEEE division as numpy does it on arrays (a warning, never an exception)
XDiv(a, b) ==
    IF isnan(a) \/ isnan(b) THEN XNan
    ELSE IF a[1] = "inf"
         THEN IF b[1] = "inf" THEN XNan
              ELSE XInf(IF XSign(b) < 0 THEN -a[2] ELSE a[2])
    ELSE IF b[1] = "inf" THEN XFin(<<0, 1>>)
    ELSE IF b[2] = 0
         THEN IF a[2] = 0 THEN XNan ELSE XInf(XSign(a))
    ELSE XFin(RMul(XRat(a), Rat(b[3], b[2])))

XMinusOne(a) == IF isfinite(a) THEN XFin(RSub(XRat(a), RInt(1))) ELSE a

\* None, or a given value, of an optional argument
None == <<>>
Some(v) == <<v>>
Opt(v) == {None, Some(v)}
IsNone(o) == o = <<>>
Val(o) == o[1]

Sq(n) == n * n

(* ------------------------------------------------------------------ *)
(* cut_grid                                                            *)
(* ------------------------------------------------------------------ *)

Fields(g) == DOMAIN g
Len0(g) == Len(g["ra"])

\* mask &= c
MaskAnd(mask, c) == Mat([i \in DOMAIN mask |-> mask[i] /\ c[i]])

\* a[mask]: the entries of a at the True positions of mask, in order
TakeMask(a, mask) ==
    LET kept == SelectSeq([i \in 1 .. Len(mask) |-> i], LAMBDA i : mask[i])
    IN  Mat([j \in 1 .. Len(kept) |-> a[kept[j]]])

\* the field a criterion of this call reads and the grid does not hold
cut_grid_missing(g, n_cut, weight_min) ==
    \/ ~IsNone(n_cut) /\ "nincell" \notin Fields(g)
    \/ ~IsNone(weight_min) /\ "sum_weights" \notin Fields(g)

\* mask = c where the code has mask &= c
mask_set_if(active, mask, c) == IF active THEN Mat(c) ELSE mask

\* if <criterion is active>: mask &= c
mask_and_if(active, mask, c) == IF active THEN MaskAnd(mask, c) ELSE mask

\* mask = np.full(grid["ra"].shape, True), then the criteria in the code's order
mask_ones(g) == [i \in 1 .. Len0(g) |-> TRUE]
mask_n_cut(g, n_cut, mask) ==
    mask_and_if(~IsNone(n_cut), mask,
                [i \in 1 .. Len0(g) |-> g["nincell"][i] > Val(n_cut)])
mask_weight_min(g, weight_min, mask) ==
    mask_and_if(~IsNone(weight_min), mask,
                [i \in 1 .. Len0(g) |-> RLt(Val(weight_min), g["sum_weights"][i])])
\* rcom <= rcom_max where the code has rcom < rcom_max
mask_rcom_max_le(g, rcom_max, mask) ==
    mask_and_if(~IsNone(rcom_max), mask,
                [i \in 1 .. Len0(g) |-> g["rcom"][i] <= Sq(Val(rcom_max))])

mask_rcom_max(g, rcom_max, mask) ==
    mask_and_if(~IsNone(rcom_max), mask,
                [i \in 1 .. Len0(g) |-> g["rcom"][i] < Sq(Val(rcom_max))])
mask_xyz(g, f, fmax, mask) ==
    mask_and_if(~IsNone(fmax), mask, [i \in 1 .. Len0(g) |-> Abs(g[f][i]) < Val(fmax)])
mask_nan(g, f, remove_nan_density, mask) ==
    mask_and_if(remove_nan_density /\ f \in Fields(g), mask,
                [i \in 1 .. Len0(g) |-> ~isnan(g[f][i])])

cut_grid_mask(g, remove_nan_density, n_cut, weight_min, rcom_max, xmax, ymax, zmax) ==
    mask_nan(g, "density_err", remove_nan_density,
    mask_nan(g, "density", remove_nan_density,
    mask_xyz(g, "z", zmax,
    mask_xyz(g, "y", ymax,
    mask_xyz(g, "x", xmax,
    mask_rcom_max(g, rcom_max,
    mask_weight_min(g, weight_min,
    mask_n_cut(g, n_cut, mask_ones(g)))))))))

\* grid[field] = grid[field][mask] for every field but one
cut_grid_slice_but_rcom(g, mask) ==
    [f \in Fields(g) |-> IF f = "rcom" THEN g[f] ELSE TakeMask(g[f], mask)]

\* for field in grid: grid[field] = grid[field][mask]
cut_grid_slice(g, mask) == [f \in Fields(g) |-> TakeMask(g[f], mask)]

cut_grid_apply(g, mask) ==
    [grid |-> cut_grid_slice(g, mask), mask |-> mask, err |-> "none", cut_in |-> g]

\* The whole call: the grid after it, the mask it built and how it ended.
cut_grid(g, remove_nan_density, n_cut, weight_min, rcom_max, xmax, ymax, zmax) ==
    IF cut_grid_missing(g, n_cut, weight_min)
    THEN [grid |-> g, mask |-> <<>>, err |-> "KeyError", cut_in |-> g]
    ELSE cut_grid_apply(g, cut_grid_mask(g, remove_nan_density, n_cut, weight_min,
                                         rcom_max, xmax, ymax, zmax))

(* ------------------------------------------------------------------ *)
(* Grid constructors                                                   *)
(* ------------------------------------------------------------------ *)

\* np.ceil where the code has np.floor
n_grid_ceil(grid_size, rcom_max) == (rcom_max + grid_size - 1) \div grid_size

\* np.floor(rcom_max / grid_size).astype(np.int64)
n_grid_of(grid_size, rcom_max) == rcom_max \div grid_size

\* np.linspace(-n_grid * grid_size, n_grid * grid_size, 2 * n_grid + 1)
linspace(grid_size, n_grid) ==
    [i \in 1 .. (2 * n_grid + 1) |-> (i - 1 - n_grid) * grid_size]

\* np.reshape(np.meshgrid(lin, lin, lin, indexing="ij"), (3, (2 n_grid + 1)^3)):
\* voxel idx (from 0) has x = lin[idx // m^2], y = lin[(idx // m) % m], z = lin[idx % m]
lattice(grid_size, n_grid) ==
    LET m == 2 * n_grid + 1
        lin == linspace(grid_size, n_grid)
    IN  Mat([idx \in 1 .. (m * m * m) |->
                <<lin[((idx - 1) \div (m * m)) + 1],
                  lin[(((idx - 1) \div m) % m) + 1],
                  lin[((idx - 1) % m) + 1]>>])

\* center_r_comov, center_ra and center_dec of the voxel centre p.  rcom is held as
\* its square, ra = arctan2(y, x) as <<y, x>> and dec = arcsin(z / r) as <<z, r^2>>;
\* the origin's dec is set to 0 = arcsin(0 / 1).
rcom_of(p) == Sq(p[1]) + Sq(p[2]) + Sq(p[3])
ra_of(p) == <<p[2], p[1]>>
dec_of(p) == IF rcom_of(p) # 0 THEN <<p[3], rcom_of(p)>> ELSE <<0, 1>>

grid_of_lattice(cp) ==
    [f \in {"ra", "dec", "rcom", "x", "y", "z"} |->
        Mat([i \in DOMAIN cp |->
                CASE f = "ra" -> ra_of(cp[i])
                  [] f = "dec" -> dec_of(cp[i])
                  [] f = "rcom" -> rcom_of(cp[i])
                  [] f = "x" -> cp[i][1]
                  [] f = "y" -> cp[i][2]
                  [] f = "z" -> cp[i][3]])]

construct_grid_regular_rectangular(grid_size, rcom_max) ==
    grid_of_lattice(lattice(grid_size, n_grid_of(grid_size, rcom_max)))

construct_grid_regular_sphere(grid_size, rcom_max) ==
    cut_grid(grid_of_lattice(lattice(grid_size, n_grid_of(grid_size, rcom_max))),
             TRUE, None, None, Some(rcom_max), None, None, None).grid

(* ------------------------------------------------------------------ *)
(* Coordinates                                                         *)
(* ------------------------------------------------------------------ *)

\* radec2cart(rcom, ra, dec) on a stored voxel: with r = sqrt(rcom), ra = arctan2(y, x)
\* and dec = arcsin(z / r0), x = r cos(ra) cos(dec), y = r sin(ra) cos(dec) and
\* z = r sin(dec) are, over the reals, the arguments the angles were built from
\* (0 at the origin, where r = 0).
radec2cart(rcom, ra, dec) ==
    IF rcom = 0 THEN <<0, 0, 0>> ELSE <<ra[2], ra[1], dec[1]>>

grid_cart(g) ==
    Mat([i \in 1 .. Len0(g) |-> radec2cart(g["rcom"][i], g["ra"][i], g["dec"][i])])

(* ------------------------------------------------------------------ *)
(* attribute_weight_density                                            *)
(* ------------------------------------------------------------------ *)

\* weight_fun(dX) * weight_fun(dY), the factor of the third axis left out
weight_product_xy(ws) == RMul(ws[1], ws[2])

\* w = weight_fun(dX) * weight_fun(dY) * weight_fun(dZ) of one tracer at one voxel
weight_product(ws) == RMul(RMul(ws[1], ws[2]), ws[3])
weight3(grid_size, kind, obj, cp) ==
    weight_product([c \in 1 .. 3 |-> weight_tab[kind, Rat(cp[c] - obj[c], grid_size)]])

\* grid_val = w; grid_var = w**2; nobj_in_cell = (w != 0): assigned, not accumulated
awd_assign(acc, w) ==
    [val |-> w, var |-> RSq(w), n |-> IF w # <<0, 1>> THEN 1 ELSE 0]

\* grid_var += w * 2 where the code has w**2
awd_add_doubled(acc, w) ==
    [val |-> RAdd(acc.val, w),
     var |-> RAdd(acc.var, RMul(RInt(2), w)),
     n |-> acc.n + (IF w # <<0, 1>> THEN 1 ELSE 0)]

\* the loop body at one voxel: grid_val += w; grid_var += w**2; nobj_in_cell += (w != 0)
awd_add(acc, w) ==
    [val |-> RAdd(acc.val, w),
     var |-> RAdd(acc.var, RSq(w)),
     n |-> acc.n + (IF w # <<0, 1>> THEN 1 ELSE 0)]

\* one pass of the loop body, over all voxels
awd_step(grid_size, kind, obj, cps, acc) ==
    Mat([j \in DOMAIN cps |-> awd_add(acc[j], weight3(grid_size, kind, obj, cps[j]))])

RECURSIVE awd_loop(_, _, _, _, _, _)
awd_loop(grid_size, kind, objs, cps, i, acc) ==
    IF i > Len(objs) THEN acc
    ELSE awd_loop(grid_size, kind, objs, cps, i + 1,
                  awd_step(grid_size, kind, objs[i], cps, acc))

\* grid_val, grid_var and nobj_in_cell = np.zeros(...)
awd_zero(cps) == [j \in DOMAIN cps |-> [val |-> <<0, 1>>, var |-> <<0, 1>>, n |-> 0]]

\* return grid_val, grid_var, nobj_in_cell
awd_return(acc) ==
    [val |-> Mat([j \in DOMAIN acc |-> acc[j].val]),
     var |-> Mat([j \in DOMAIN acc |-> acc[j].var]),
     n |-> Mat([j \in DOMAIN acc |-> acc[j].n])]

attribute_weight_density(grid_size, objs, cps, kind) ==
    awd_return(awd_loop(grid_size, kind, objs, cps, 1, awd_zero(cps)))

(* ------------------------------------------------------------------ *)
(* grid_data_density                                                   *)
(* ------------------------------------------------------------------ *)

\* str.lower() on the kernel names the model passes in
lower(kind) ==
    CASE kind \in {"ngp", "NGP"} -> "ngp"
      [] kind \in {"cic", "Cic"} -> "cic"
      [] kind \in {"bogus", "BOGUS"} -> "bogus"
      [] OTHER -> kind

\* The message of the ValueError raised at the kind check of grid_data_density:
\* ValueError's only argument is the generator expression
\* ("INVALID GRID TYPE ! \n Grid allowed : " + f"{k}" for k in _GRID_KIND), never
\* iterated, so str() of the error is the generator's repr.
gdd_kind_error_message == <<"<generator object <genexpr>>">>

RECURSIVE RSumRange(_, _, _)
RSumRange(a, lo, hi) ==
    IF lo > hi THEN <<0, 1>>
    ELSE IF lo = hi THEN a[lo]
    ELSE LET mid == (lo + hi) \div 2
         IN  RAdd(RSumRange(a, lo, mid), RSumRange(a, mid + 1, hi))

\* np.sum of an array of weights (pairwise summation)
RSum(a) == RSumRange(a, 1, Len(a))

\* np.sum of an array of counts
ISum(a) == RSum([i \in DOMAIN a |-> RInt(a[i])])[1]

\* (a / (b / sum(b))) - 1: the real weights not divided by their sum
contrast_unnormalised(a, suma, b, sumb) ==
    XMinusOne(XDiv(XFin(a), XDiv(XFin(b), XFin(sumb))))

\* ((a / sum(a)) / (b / sum(b))) - 1, element i
contrast(a, suma, b, sumb) ==
    XMinusOne(XDiv(XDiv(XFin(a), XFin(suma)), XDiv(XFin(b), XFin(sumb))))

\* grid["sum_weights"] = ...; grid["var_weights"] = ...; grid["nincell"] = ...
gdd_store(g, w) ==
    [f \in Fields(g) \cup {"sum_weights", "var_weights", "nincell"} |->
        CASE f = "sum_weights" -> w.val
          [] f = "var_weights" -> w.var
          [] f = "nincell" -> w.n
          [] OTHER -> g[f]]

\* the array ((a / sum(a)) / (b / sum(b))) - 1
contrast_array(a, suma, b, sumb) ==
    Mat([i \in DOMAIN a |-> contrast(a[i], suma, b[i], sumb)])
RInts(a) == [i \in DOMAIN a |-> RInt(a[i])]
\* grid["density"], grid["density_err"] and grid["density_nincell"].  density_err =
\* sqrt(Nrandom / n_in_cell_random) is held as its square (sqrt keeps 0, inf and nan).
gdd_density(w, wr) == contrast_array(w.val, RSum(w.val), wr.val, RSum(wr.val))
gdd_density_err(wr, Nrandom) ==
    Mat([i \in DOMAIN wr.n |-> XDiv(XFin(RInt(Nrandom)), XFin(RInt(wr.n[i])))])
gdd_density_nincell(w, wr) ==
    contrast_array(RInts(w.n), RInt(ISum(w.n)), RInts(wr.n), RInt(ISum(wr.n)))
\* the random fields and the three density estimates, stored
gdd_store_density(g, w, wr, Nrandom) ==
    [f \in Fields(g) \cup {"sum_weights_random", "var_weights_random",
                           "nincell_random", "density", "density_err",
                           "density_nincell"} |->
        CASE f = "sum_weights_random" -> wr.val
          [] f = "var_weights_random" -> wr.var
          [] f = "nincell_random" -> wr.n
          [] f = "density" -> gdd_density(w, wr)
          [] f = "density_err" -> gdd_density_err(wr, Nrandom)
          [] f = "density_nincell" -> gdd_density_nincell(w, wr)
          [] OTHER -> g[f]]

\* How the random catalogue's construction ends for a catalogue of N tracers:
\* no branch binds xobj_random for a name outside the three (the call that uses it
\* then raises UnboundLocalError); np.max of an empty array and np.random.choice
\* with nan probabilities raise ValueError.
gdd_random_error(objs, random_method) ==
    IF random_method \notin RANDOM_METHODS THEN "UnboundLocalError"
    ELSE IF Len(objs) = 0 THEN "ValueError"
    ELSE "none"

\* return grid, after cut_grid's result c; raise exc with the grid left as g
gdd_return(c) ==
    [grid |-> c.grid, exc |-> c.err, msg |-> <<>>, mask |-> c.mask, cut_in |-> c.cut_in]
gdd_raise(g, exc, msg) ==
    [grid |-> g, exc |-> exc, msg |-> msg, mask |-> <<>>, cut_in |-> <<>>]
\* The call from "if compute_density:" on, the weights w of the tracers known.
gdd_finish(g, grid_size, objs, kind, cps, w, n_cut, weight_min, compute_density, Nrandom, random_method, rnd) ==
    IF compute_density /\ gdd_random_error(objs, random_method) # "none"
    THEN gdd_raise(gdd_store(g, w), gdd_random_error(objs, random_method), <<>>)
    ELSE gdd_return(cut_grid(
            IF compute_density
            THEN gdd_store_density(gdd_store(g, w), w,
                     attribute_weight_density(grid_size, rnd, cps, kind), Nrandom)
            ELSE gdd_store(g, w),
            TRUE, n_cut, weight_min, None, None, None, None))

\* The whole call on grid g with the catalogue objs (its Cartesian image) and the
\* random catalogue rnd the generator drew: the grid after it and how it ended.
grid_data_density(g, grid_size, objs, kind0, n_cut, weight_min, compute_density, Nrandom, random_method, rnd) ==
    IF lower(kind0) \notin GridKinds
    THEN gdd_raise(g, "ValueError", gdd_kind_error_message)
    ELSE gdd_finish(g, grid_size, objs, lower(kind0), grid_cart(g),
                    attribute_weight_density(grid_size, objs, grid_cart(g), lower(kind0)),
                    n_cut, weight_min, compute_density, Nrandom, random_method, rnd)

(* ------------------------------------------------------------------ *)
(* compute_grid_window (its entry: validation and dispatch)            *)
(* ------------------------------------------------------------------ *)

order_dic(kind) ==
    CASE kind = "ngp" -> 1
      [] kind = "ngp_errw" -> 1
      [] kind = "cic" -> 2
      [] kind = "tsc" -> 3
      [] kind = "pcs" -> 4

\* "INVALID GRID TYPE ! Grid allowed : " + "".join("" + f"{k} " for k in _GRID_KIND):
\* the head, then each name (followed by a blank)
cgw_kind_error_message == <<"INVALID GRID TYPE ! Grid allowed : ">> \o GRID_KIND

\* the grid_size test made before the kernel name is looked at
compute_grid_window_size_first(grid_size, kind) ==
    IF grid_size = 0
    THEN [exc |-> "none", msg |-> <<>>, ret |-> <<"None", 0, 0>>]
    ELSE IF kind \notin GridKinds
    THEN [exc |-> "ValueError", msg |-> cgw_kind_error_message, ret |-> <<"raise", 0, 0>>]
    ELSE [exc |-> "none", msg |-> <<>>, ret |-> <<"window", grid_size, order_dic(kind)>>]

\* ret is None, or the call _compute_grid_window(grid_size, kh, order, n) it returns
compute_grid_window(grid_size, kind) ==
    IF kind \notin GridKinds
    THEN [exc |-> "ValueError", msg |-> cgw_kind_error_message, ret |-> <<"raise", 0, 0>>]
    ELSE IF grid_size = 0
    THEN [exc |-> "none", msg |-> <<>>, ret |-> <<"None", 0, 0>>]
    ELSE [exc |-> "none", msg |-> <<>>, ret |-> <<"window", grid_size, order_dic(kind)>>]

(* ------------------------------------------------------------------ *)
(* grid_data_density_pypower (up to the hand-over to the mesh library) *)
(* ------------------------------------------------------------------ *)

\* xobj[mask], yobj[mask], zobj[mask] with mask = |x| < rcom_max & |y| < ... & |z| < ...
pypower_mask(objs, rcom_max) ==
    SelectSeq(objs, LAMBDA p : Abs(p[1]) < rcom_max /\ Abs(p[2]) < rcom_max
                               /\ Abs(p[3]) < rcom_max)

\* The same three-way branch on random_method with no else; past it the work is the
\* external mesh library's ("mesh"), which the model does not describe.
grid_data_density_pypower(objs, rcom_max, random_method) ==
    LET kept == pypower_mask(objs, rcom_max)
    IN  IF random_method \notin RANDOM_METHODS THEN "UnboundLocalError"
        ELSE IF Len(kept) = 0 THEN "ValueError"
        ELSE "mesh"

(* ------------------------------------------------------------------ *)
(* The random catalogue                                                *)
(* ------------------------------------------------------------------ *)

SeqSet(a) == {a[i] : i \in DOMAIN a}
MinOf(S) == CHOOSE m \in S : \A n \in S : m <= n
MaxOf(S) == CHOOSE m \in S : \A n \in S : n <= m

\* (max - min) * u + min for u in [0, 1)
in_range(v, S) == IF MaxOf(S) = MinOf(S) THEN v = MinOf(S)
                  ELSE MinOf(S) <= v /\ v < MaxOf(S)

\* arctan2(y, x) <= arctan2(y', x') for points with y, y' >= 0 (angles in [0, pi])
ra_le(p, q) ==
    LET a == IF p[1] = 0 /\ p[2] = 0 THEN <<1, 0>> ELSE <<p[1], p[2]>>
        b == IF q[1] = 0 /\ q[2] = 0 THEN <<1, 0>> ELSE <<q[1], q[2]>>
        cross == a[1] * b[2] - a[2] * b[1]
    IN  cross > 0 \/ (cross = 0 /\ (a[1] * b[1] + a[2] * b[2] > 0 \/ b[1] < 0))

\* arcsin(z / r) <= arcsin(z' / r'): z|z| / r^2 <= z'|z'| / r'^2
dec_le(p, q) ==
    LET d == dec_of(p)
        e == dec_of(q)
    IN  d[1] * Abs(d[1]) * e[2] <= e[1] * Abs(e[1]) * d[2]

\* The points of the universe U a random tracer can be, given the catalogue:
\* cartesian: each coordinate uniform between the catalogue's minimum and maximum;
\* healpix: ra and dec uniform between the catalogue's, rcom at a catalogue radius;
\* choice: ra, dec and rcom each at a value of the catalogue.
\* (A histogram bin's centre stands for the catalogue value in the bin.)
random_points(random_method, objs, U) ==
    LET O == SeqSet(objs) IN
    CASE random_method = "cartesian" ->
            {p \in U : \A c \in 1 .. 3 : in_range(p[c], {o[c] : o \in O})}
      [] random_method = "healpix" ->
            {p \in U :
                /\ \E o \in O : rcom_of(o) = rcom_of(p)
                /\ \E o \in O : ra_le(o, p)
                /\ \E o \in O : ra_le(p, o)
                /\ \E o \in O : dec_le(o, p)
                /\ \E o \in O : dec_le(p, o)}
      [] random_method = "choice" ->
            {p \in U :
                /\ \E o \in O : rcom_of(o) = rcom_of(p)
                /\ \E o \in O : ra_le(o, p) /\ ra_le(p, o)
                /\ \E o \in O : dec_le(o, p) /\ dec_le(p, o)}

rank(p) == 400 * (p[1] + 10) + 20 * (p[2] + 10) + p[3] + 10

\* The draws of size Nrandom * N, up to the order of the tracers in the array (the
\* sums attribute_weight_density returns do not depend on it).
random_draws(random_method, objs, Nrandom, U) ==
    IF random_method \notin RANDOM_METHODS \/ Len(objs) = 0 THEN {<<>>}
    ELSE {r \in [1 .. (Nrandom * Len(objs)) -> random_points(random_method, objs, U)] :
            \A i \in 1 .. (Nrandom * Len(objs) - 1) : rank(r[i]) <= rank(r[i + 1])}

(* ------------------------------------------------------------------ *)
(* State                                                               *)
(* ------------------------------------------------------------------ *)

VARIABLES
    grid,   \* the grid dictionary: field name -> per-voxel array
    pre,    \* the grid as it was when the last call began
    call,   \* the last call: its name and arguments
    res,    \* how the last call ended: exception, message, mask, return value, and
            \* the grid cut_grid was entered with
    gsize,  \* the grid_size the grid was constructed with, which the caller passes on
    nops,   \* the number of calls made on the grid
    kcall,  \* the last kernel evaluation: kernel name and tracer offset
    kres    \* its arguments dX and its results, one per lattice point

vars == <<grid, pre, call, res, gsize, nops, kcall, kres>>

NoCall ==
    [op |-> "none", grid_size |-> 0, rcom_max |-> 0, kind |-> "", objs |-> <<>>,
     n_cut |-> None, weight_min |-> None, compute_density |-> FALSE, Nrandom |-> 0,
     random_method |-> "", rnd |-> <<>>, remove_nan_density |-> FALSE,
     cut_rcom_max |-> None, xmax |-> None, ymax |-> None, zmax |-> None]

Returned ==
    [exc |-> "none", msg |-> <<>>, mask |-> <<>>, ret |-> <<"None", 0, 0>>,
     cut_in |-> <<>>]

RectCall(gs, rmax) ==
    [NoCall EXCEPT !.op = "construct_grid_regular_rectangular",
                   !.grid_size = gs, !.rcom_max = rmax]
SphereCall(gs, rmax) ==
    [NoCall EXCEPT !.op = "construct_grid_regular_sphere",
                   !.grid_size = gs, !.rcom_max = rmax]

NoKernel == [kind |-> "", obj |-> <<0, 1>>]
NoKernelRes == [dX |-> <<>>, w |-> <<>>]

\* A constructor has returned the grid.
Constructed ==
    \E gs \in GridSizes, rmax \in RcomMaxes :
        /\ \/ /\ grid = construct_grid_regular_rectangular(gs, rmax)
              /\ call = RectCall(gs, rmax)
           \/ /\ grid = construct_grid_regular_sphere(gs, rmax)
              /\ call = SphereCall(gs, rmax)
        /\ pre = grid
        /\ res = Returned
        /\ gsize = gs
        /\ nops = 0

Init == Constructed /\ kcall = NoKernel /\ kres = NoKernelRes

\* grid_data_density on a grid that has seen a number of calls in Depths, its
\* arguments from the sets
GridDataDensity(Depths, Kinds, Cats, NCutS, WeightMinS, Densities, NrandomS, Methods) ==
    /\ nops \in Depths
    /\ \E c \in Cats, kind \in Kinds, n_cut \in NCutS, weight_min \in WeightMinS,
          compute_density \in Densities, Nrandom \in NrandomS, random_method \in Methods :
       \E objs \in {catalog(c, gsize)} :
       \E rnd \in IF compute_density
                  THEN random_draws(random_method, objs, Nrandom, Universe(gsize))
                  ELSE {<<>>} :
       \E r \in {grid_data_density(grid, gsize, objs, kind, n_cut, weight_min,
                                   compute_density, Nrandom, random_method, rnd)} :
            /\ grid' = r.grid
            /\ pre' = grid
            /\ call' = [NoCall EXCEPT !.op = "grid_data_density", !.grid_size = gsize,
                           !.objs = objs, !.kind = kind, !.n_cut = n_cut,
                           !.weight_min = weight_min,
                           !.compute_density = compute_density,
                           !.Nrandom = Nrandom, !.random_method = random_method,
                           !.rnd = rnd, !.remove_nan_density = TRUE]
            /\ res' = [Returned EXCEPT !.exc = r.exc, !.msg = r.msg, !.mask = r.mask,
                                       !.cut_in = r.cut_in]
            /\ nops' = nops + 1
            /\ UNCHANGED <<gsize, kcall, kres>>

CutGrid(Depths, RemoveNanS, NCutS, WeightMinS, RcomMaxS, XmaxS, YmaxS, ZmaxS) ==
    /\ nops \in Depths
    /\ \E remove_nan_density \in RemoveNanS, n_cut \in NCutS, weight_min \in WeightMinS,
          rcom_max \in RcomMaxS, xmax \in XmaxS, ymax \in YmaxS, zmax \in ZmaxS :
       \E r \in {cut_grid(grid, remove_nan_density, n_cut, weight_min, rcom_max,
                          xmax, ymax, zmax)} :
            /\ grid' = r.grid
            /\ pre' = grid
            /\ call' = [NoCall EXCEPT !.op = "cut_grid",
                           !.remove_nan_density = remove_nan_density,
                           !.n_cut = n_cut, !.weight_min = weight_min,
                           !.cut_rcom_max = rcom_max, !.xmax = xmax, !.ymax = ymax,
                           !.zmax = zmax]
            /\ res' = [Returned EXCEPT !.exc = r.err, !.mask = r.mask,
                                       !.cut_in = r.cut_in]
            /\ nops' = nops + 1
            /\ UNCHANGED <<gsize, kcall, kres>>

ComputeGridWindow ==
    /\ nops = 0
    /\ \E gs \in GridSizes \cup {0}, kind \in KindNames :
       \E r \in {compute_grid_window(gs, kind)} :
            /\ call' = [NoCall EXCEPT !.op = "compute_grid_window",
                           !.grid_size = gs, !.kind = kind]
            /\ res' = [Returned EXCEPT !.exc = r.exc, !.msg = r.msg, !.ret = r.ret]
            /\ pre' = grid
            /\ nops' = nops + 1
            /\ UNCHANGED <<grid, gsize, kcall, kres>>

GridDataDensityPypower ==
    /\ nops = 0
    /\ \E c \in Catalogs, gs \in GridSizes, rmax \in RcomMaxes,
          random_method \in MethodNames :
       \E r \in {grid_data_density_pypower(catalog(c, gs), rmax, random_method)} :
            /\ call' = [NoCall EXCEPT !.op = "grid_data_density_pypower",
                           !.objs = catalog(c, gs), !.grid_size = gs,
                           !.rcom_max = rmax, !.random_method = random_method]
            /\ res' = [Returned EXCEPT
                          !.exc = IF r = "mesh" THEN "none" ELSE r,
                          !.ret = <<r, 0, 0>>]
            /\ pre' = grid
            /\ nops' = nops + 1
            /\ UNCHANGED <<grid, gsize, kcall, kres>>

\* attribute_weight_density called on its own: the voxel centres of the grid, a
\* catalogue of up to MaxTracers tracers (any of them may coincide), one of the five
\* weight functions.  It returns the three arrays and writes to nothing else.
AttributeWeightDensity ==
    /\ nops = 0
    /\ \E n \in 0 .. MaxTracers, kind \in GridKinds :
       \E objs \in [1 .. n -> TracerPlaces(gsize)] :
       \E w \in {attribute_weight_density(gsize, Mat(objs), grid_cart(grid), kind)} :
            /\ call' = [NoCall EXCEPT !.op = "attribute_weight_density",
                           !.grid_size = gsize, !.objs = Mat(objs), !.kind = kind]
            /\ res' = [Returned EXCEPT !.ret = <<w.val, w.var, w.n>>]
            /\ pre' = grid
            /\ nops' = nops + 1
            /\ UNCHANGED <<grid, gsize, kcall, kres>>

\* weight_fun(dX) on the array dX = grid coordinate - tracer coordinate, in cells, of
\* the lattice points -MaxVoxel .. MaxVoxel of one axis, for a tracer at offset obj
KernelOnLattice ==
    \E kind \in GridKinds, obj \in Offsets :
    \E dX \in {separations(obj)} :
        /\ kcall' = [kind |-> kind, obj |-> obj]
        /\ kres' = [dX |-> dX, w |-> Mat([k \in DOMAIN dX |-> weight_fun(kind, dX[k])])]
        /\ UNCHANGED <<grid, pre, call, res, gsize, nops>>

(* ------------------------------------------------------------------ *)
(* Specifications                                                      *)
(* ------------------------------------------------------------------ *)

\* The life of a grid: constructed, then up to MaxOps calls of grid_data_density and
\* cut_grid in any order.
Next ==
    \/ GridDataDensity(0 .. (MaxOps - 1), {"cic", "bogus"}, {<<>>, <<<<1, 0, 0>>, <<-2, 0, 2>>>>},
                       {None, Some(0)}, {None}, BOOLEAN, {1}, {"cartesian", "bogus"})
    \/ CutGrid(0 .. (MaxOps - 1), BOOLEAN, {None, Some(0)}, {None}, Opt(2), Opt(1), {None}, {None})

Spec == Init /\ [][Next]_vars

\* One call, on the grid a constructor returned, its arguments drawn widely.
NextCalls ==
    \/ GridDataDensity({0}, KindNames, Catalogs, {None, Some(1)}, {None}, BOOLEAN, {1, 2},
                       MethodNames)
    \/ ComputeGridWindow
    \/ GridDataDensityPypower

SpecCalls == Init /\ [][NextCalls]_vars

\* A grid, constructed and filled by grid_data_density or not, cut under every
\* combination of criteria, up to MaxOps calls in all.
NextCut ==
    \/ GridDataDensity({0}, {"cic"}, {<<<<0, 0, 0>>, <<2, 0, 0>>>>, <<<<1, 0, 0>>, <<-2, 0, 2>>>>},
                       {None, Some(0)}, {None, Some(<<1, 2>>)}, BOOLEAN, {1},
                       {"cartesian"})
    \/ CutGrid(0 .. (MaxOps - 1), BOOLEAN, {None, Some(0)}, {None, Some(<<1, 4>>)},
               Opt(3), Opt(1), Opt(1), Opt(1))

SpecCut == Init /\ [][NextCut]_vars

\* The kernels evaluated along one axis of the lattice.
SpecKernel == Init /\ [][KernelOnLattice]_vars

\* attribute_weight_density on the grid a constructor returned
SpecAssign == Init /\ [][AttributeWeightDensity]_vars

(* ------------------------------------------------------------------ *)
(* Properties                                                          *)
(* ------------------------------------------------------------------ *)

CountTrue(mask) == Cardinality({i \in DOMAIN mask : mask[i]})
Point(g, i) == <<g["x"][i], g["y"][i], g["z"][i]>>
\* the position among the members of S, counted from 1, of its member i
RankIn(S, i) == Cardinality({k \in S : k <= i})
\* g is g0 restricted to the voxels of K, in g0's order, field by field
Restricted(g, g0, K) ==
    /\ Fields(g) = Fields(g0)
    /\ \A f \in Fields(g) : Len(g[f]) = Cardinality(K)
    /\ \A i \in K : \A f \in Fields(g) : g[f][RankIn(K, i)] = g0[f][i]

\* C1: in every reachable state all per-voxel arrays of the grid have the same
\* length, and right after a cut_grid call that length is the number of True entries
\* of the mask the call built.
C1_SameLength ==
    /\ \A f \in Fields(grid) : Len(grid[f]) = Len(grid["ra"])
    /\ (call.op = "cut_grid" /\ res.exc = "none") =>
           Len(grid["ra"]) = CountTrue(res.mask)

\* cut_grid has removed some voxels, not all, of a grid that grid_data_density filled
C1_Witness ==
    /\ call.op = "cut_grid" /\ res.exc = "none"
    /\ "density" \in Fields(grid)
    /\ 0 < Len0(grid) /\ Len0(grid) < Len0(pre)

\* The criteria of a cut_grid call with the arguments a, at voxel i of the grid g it
\* was entered with.
Satisfies(g, i, a) ==
    /\ (a.remove_nan_density /\ "density_err" \in Fields(g)) => ~isnan(g["density_err"][i])
    /\ (a.remove_nan_density /\ "density" \in Fields(g)) => ~isnan(g["density"][i])
    /\ ~IsNone(a.zmax) => Abs(g["z"][i]) < Val(a.zmax)
    /\ ~IsNone(a.ymax) => Abs(g["y"][i]) < Val(a.ymax)
    /\ ~IsNone(a.xmax) => Abs(g["x"][i]) < Val(a.xmax)
    /\ ~IsNone(a.cut_rcom_max) => g["rcom"][i] < Sq(Val(a.cut_rcom_max))
    /\ ~IsNone(a.weight_min) => RLt(Val(a.weight_min), g["sum_weights"][i])
    /\ ~IsNone(a.n_cut) => g["nincell"][i] > Val(a.n_cut)
Retained(g, a) == {i \in 1 .. Len0(g) : Satisfies(g, i, a)}
CutReturned ==
    /\ call.op \in {"cut_grid", "grid_data_density"}
    /\ res.exc = "none"

\* C2: after cut_grid (called directly, or by grid_data_density as its last step) the
\* grid holds exactly the voxels that satisfy every active criterion, whatever the
\* order the criteria are taken in: every field is the field before the cut
\* restricted to those voxels, in the original order and at one common index.
C2_CutIsConjunction ==
    CutReturned => Restricted(grid, res.cut_in, Retained(res.cut_in, call))

\* a direct call on a grid that grid_data_density filled, five criteria active at
\* once: some voxels go, several stay
C2_Witness ==
    /\ call.op = "cut_grid" /\ res.exc = "none"
    /\ "density" \in Fields(pre)
    /\ call.remove_nan_density /\ ~IsNone(call.n_cut) /\ ~IsNone(call.weight_min)
    /\ ~IsNone(call.ymax) /\ ~IsNone(call.cut_rcom_max)
    /\ 1 < Len0(grid) /\ Len0(grid) < Len0(pre)

LatticePoints(grid_size, n) ==
    {<<i * grid_size, j * grid_size, k * grid_size>> : i, j, k \in (0 - n) .. n}
Cube(m) == m * m * m
RectangularReturned == nops = 0 /\ call.op = "construct_grid_regular_rectangular"
SphereReturned == nops = 0 /\ call.op = "construct_grid_regular_sphere"

\* C3: construct_grid_regular_rectangular returns (2 floor(rcom_max / grid_size) + 1)^3
\* voxels, one for each lattice point, each point exactly once; grid_size = 10 and
\* rcom_max = 50 give 1331 voxels.
C3_RectangularLattice ==
    /\ RectangularReturned =>
          /\ Len0(grid) = Cube(2 * (call.rcom_max \div call.grid_size) + 1)
          /\ \A f \in Fields(grid) : Len(grid[f]) = Len0(grid)
          /\ \A p \in LatticePoints(call.grid_size, call.rcom_max \div call.grid_size) :
                Cardinality({i \in 1 .. Len0(grid) : Point(grid, i) = p}) = 1
    /\ Cube(Len(linspace(10, n_grid_of(10, 50)))) = 1331

\* a lattice of 27 voxels
C3_Witness == RectangularReturned /\ Len0(grid) = 27

\* C4: construct_grid_regular_sphere returns exactly the voxels of the rectangular
\* lattice of the same arguments with rcom < rcom_max, strictly, in the lattice's order.
C4_SphereIsStrictCut ==
    SphereReturned =>
        Restricted(grid,
                   construct_grid_regular_rectangular(call.grid_size, call.rcom_max),
                   {i \in 1 .. Cube(2 * (call.rcom_max \div call.grid_size) + 1) :
                      \E p \in LatticePoints(call.grid_size,
                                             call.rcom_max \div call.grid_size) :
                        /\ p = Point(construct_grid_regular_rectangular(
                                        call.grid_size, call.rcom_max), i)
                        /\ Sq(p[1]) + Sq(p[2]) + Sq(p[3]) < Sq(call.rcom_max)})

\* the lattice has voxels at rcom = rcom_max exactly, and the sphere has only the
\* voxel inside
C4_Witness ==
    /\ SphereReturned
    /\ call.rcom_max = call.grid_size
    /\ Len0(grid) = 1

\* the documented support radius of a kernel
SupportRadius(kind) ==
    CASE kind \in {"ngp", "ngp_errw"} -> <<1, 2>>
      [] kind = "cic" -> <<1, 1>>
      [] kind = "tsc" -> <<3, 2>>
      [] kind = "pcs" -> <<2, 1>>
KernelEvaluated == kcall.kind # ""

\* C5: for every kernel and every tracer offset the weights over the lattice points
\* sum to exactly 1, and the weight is 0 at every separation beyond the kernel's
\* support radius; offsets on a cell boundary (|ds| = 0.5 for ngp) included.
C5_PartitionOfUnity ==
    KernelEvaluated =>
        /\ RSum(kres.w) = <<1, 1>>
        /\ \A k \in DOMAIN kres.w :
              RLt(SupportRadius(kcall.kind), RAbs(kres.dX[k])) => kres.w[k] = <<0, 1>>

\* C6: for every kernel and every separation ds, weight(ds) = weight(-ds) and the
\* weight lies in [0, 1].
C6_EvenAndBounded ==
    KernelEvaluated =>
        \A k \in DOMAIN kres.w :
            /\ kres.w[k] = weight_fun(kcall.kind, RNeg(kres.dX[k]))
            /\ RLe(<<0, 1>>, kres.w[k])
            /\ RLe(kres.w[k], <<1, 1>>)

\* pcs at a negative separation inside its support, its weight strictly between 0 and 1
C6_Witness ==
    /\ kcall.kind = "pcs"
    /\ \E k \in DOMAIN kres.w :
          /\ kres.dX[k][1] < 0
          /\ RLt(<<0, 1>>, kres.w[k]) /\ RLt(kres.w[k], <<1, 1>>)

\* grid_data_density has returned, density and cuts off, for one tracer at the centre
\* of a voxel of a rectangular grid, under a kernel whose lower-case name is kind
SingleTracerAssigned(kind) ==
    /\ call.op = "grid_data_density" /\ res.exc = "none"
    /\ lower(call.kind) = kind
    /\ ~call.compute_density /\ IsNone(call.n_cut) /\ IsNone(call.weight_min)
    /\ Len(call.objs) = 1
    /\ \E i \in 1 .. Len0(pre) : Point(pre, i) = call.objs[1]
    /\ \E rmax \in RcomMaxes : pre = construct_grid_regular_rectangular(gsize, rmax)
\* the voxels of g at p and one cell from p along one axis
FaceNeighbourhood(g, p, grid_size) ==
    {i \in 1 .. Len0(g) :
        Abs(g["x"][i] - p[1]) + Abs(g["y"][i] - p[2]) + Abs(g["z"][i] - p[3])
            \in {0, grid_size}}
RSumOver(a, S) == RSum([i \in 1 .. Len(a) |-> IF i \in S THEN a[i] ELSE <<0, 1>>])

\* C7: one tracer at a voxel centre of a rectangular grid: under ngp sum_weights is 1
\* at that voxel and 0 at all others; under cic it is 1 at that voxel, and the
\* weights of that voxel and its face-adjacent neighbours sum to 1.
C7_SingleTracerAtCentre ==
    /\ SingleTracerAssigned("ngp") =>
          \A i \in 1 .. Len0(grid) :
              grid["sum_weights"][i] =
                  IF Point(grid, i) = call.objs[1] THEN <<1, 1>> ELSE <<0, 1>>
    /\ SingleTracerAssigned("cic") =>
          /\ \A i \in 1 .. Len0(grid) :
                Point(grid, i) = call.objs[1] => grid["sum_weights"][i] = <<1, 1>>
          /\ RSumOver(grid["sum_weights"],
                      FaceNeighbourhood(grid, call.objs[1], gsize)) = <<1, 1>>

\* cic, the tracer at a centre that has other voxels around it
C7_Witness ==
    /\ SingleTracerAssigned("cic")
    /\ Cardinality(FaceNeighbourhood(grid, call.objs[1], gsize)) > 4
    /\ call.objs[1] # <<0, 0, 0>>

UnknownKernelCall ==
    /\ call.op \in {"grid_data_density", "compute_grid_window"}
    /\ lower(call.kind) \notin GridKinds

\* C8: a kernel name outside the five makes grid_data_density and compute_grid_window
\* raise the invalid-configuration error, and in both the message enumerates the five
\* allowed names.
C8_UnknownKernelEnumerated ==
    UnknownKernelCall =>
        /\ res.exc = "ValueError"
        /\ \A k \in GridKinds : \E j \in DOMAIN res.msg : res.msg[j] = k

UnknownRandomMethodCall ==
    \/ /\ call.op = "grid_data_density"
       /\ lower(call.kind) \in GridKinds
       /\ call.compute_density
       /\ call.random_method \notin RANDOM_METHODS
    \/ /\ call.op = "grid_data_density_pypower"
       /\ call.random_method \notin RANDOM_METHODS

\* C9: grid_data_density and grid_data_density_pypower called with a random_method
\* outside {choice, healpix, cartesian} end in the invalid-configuration error (the
\* error kind of an unknown kernel name), never in a normal return or another failure.
C9_UnknownRandomMethodRejected ==
    UnknownRandomMethodCall => res.exc = "ValueError"

\* C10: grid_data_density called with an unknown kernel name or an unknown random
\* strategy raises before any assignment is computed: after the failed call the grid
\* holds exactly the fields and values it held before.
C10_FailFastGridUnchanged ==
    (/\ call.op = "grid_data_density"
     /\ \/ lower(call.kind) \notin GridKinds
        \/ call.compute_density /\ call.random_method \notin RANDOM_METHODS) =>
        /\ res.exc # "none"
        /\ grid = pre

DensityReturned ==
    /\ call.op = "grid_data_density" /\ res.exc = "none"
    /\ call.compute_density

\* C11: after grid_data_density with compute_density returns, no retained voxel has
\* a NaN or infinite density or density_err: the voxels whose value came from a zero
\* denominator have been removed by the cut that ends the call.
C11_NoNanInfRetained ==
    DensityReturned =>
        \A i \in 1 .. Len0(grid) :
            /\ isfinite(grid["density"][i])
            /\ isfinite(grid["density_err"][i])

\* a call of grid_data_density or compute_grid_window whose kernel name is one of the
\* five in another spelling of upper and lower case
MixedCaseKernelCall(op) ==
    /\ call.op = op
    /\ lower(call.kind) \in GridKinds
    /\ call.kind # lower(call.kind)

\* C12: a kernel name in any upper/lower-case spelling is accepted and selects the
\* same kernel as its lower-case name, in grid_data_density and in
\* compute_grid_window: the call ends as the call with the lower-case name ends.
C12_KernelNameCaseInsensitive ==
    /\ MixedCaseKernelCall("grid_data_density") =>
          \E r \in {grid_data_density(pre, gsize, call.objs, lower(call.kind),
                                      call.n_cut, call.weight_min,
                                      call.compute_density, call.Nrandom,
                                      call.random_method, call.rnd)} :
              grid = r.grid /\ res.exc = r.exc
    /\ MixedCaseKernelCall("compute_grid_window") =>
          \E r \in {compute_grid_window(call.grid_size, lower(call.kind))} :
              res.exc = r.exc /\ res.ret = r.ret

\* the positive constants the real sums are multiplied by
Scales == {<<2, 1>>, <<1, 3>>, <<5, 2>>}
Scaled(a, c) == [i \in DOMAIN a |-> RMul(c, a[i])]

\* the density formula on the real sums a and the random sums b
DensityFormula(a, b) == contrast_array(a, RSum(a), b, RSum(b))

\* C13: for fixed random per-voxel sums, multiplying every real per-voxel sum_weights
\* by the same positive constant leaves the density unchanged at every voxel: the
\* formula on the rescaled sums gives the density grid_data_density stored.
C13_DensityScaleInvariant ==
    DensityReturned =>
        \A c \in Scales :
            DensityFormula(Scaled(res.cut_in["sum_weights"], c),
                           res.cut_in["sum_weights_random"])
                = res.cut_in["density"]

\* two tracers, so that the real sums do not add up to 1, and among the voxels a
\* finite nonzero density, an infinite one and a NaN
C13_Witness ==
    /\ DensityReturned
    /\ Len(call.objs) = 2
    /\ RSum(res.cut_in["sum_weights"]) = <<2, 1>>
    /\ \E i \in 1 .. Len0(res.cut_in) :
          /\ isfinite(res.cut_in["density"][i])
          /\ XRat(res.cut_in["density"][i]) \notin {<<0, 1>>, <<-1, 1>>}
    /\ \E i \in 1 .. Len0(res.cut_in) : res.cut_in["density"][i][1] = "inf"
    /\ \E i \in 1 .. Len0(res.cut_in) : isnan(res.cut_in["density"][i])

\* compute_grid_window has been called with grid_size == 0
WindowOfZeroGridSize == call.op = "compute_grid_window" /\ call.grid_size = 0

\* C14: compute_grid_window with grid_size == 0 and one of the five kernel names
\* returns None, the integration not run; the kernel name is tested first, so a name
\* outside the five is rejected with the error that enumerates the allowed names
\* also when grid_size == 0.
C14_ZeroGridSizeWindow ==
    WindowOfZeroGridSize =>
        /\ call.kind \in GridKinds =>
              res.exc = "none" /\ res.ret = <<"None", 0, 0>>
        /\ lower(call.kind) \notin GridKinds =>
              /\ res.exc = "ValueError"
              /\ res.ret[1] = "raise"
              /\ \A k \in GridKinds : \E j \in DOMAIN res.msg : res.msg[j] = k

\* grid_size == 0 with an unknown kernel name: rejected, although the size is 0
C14_Witness ==
    /\ WindowOfZeroGridSize
    /\ call.kind = "bogus"
    /\ res.exc = "ValueError"

\* attribute_weight_density has returned its three arrays
AssignReturned == call.op = "attribute_weight_density"
AssignedArrays == [val |-> res.ret[1], var |-> res.ret[2], n |-> res.ret[3]]

\* the product of the three per-axis weights of tracer i of the call at the voxel cp
ProductAt(i, cp) == weight3(call.grid_size, call.kind, call.objs[i], cp)

\* the products of every tracer of the call at every voxel, computed once
Products(cps) ==
    [i \in DOMAIN call.objs |-> Mat([j \in DOMAIN cps |-> ProductAt(i, cps[j])])]

\* the three arrays are, per voxel, the sum of the products W, the sum of their
\* squares and the number of tracers whose product is nonzero
AssignIsSum(W) ==
    \A j \in DOMAIN res.ret[1] :
        /\ res.ret[1][j] = RSum([i \in DOMAIN W |-> W[i][j]])
        /\ res.ret[2][j] = RSum([i \in DOMAIN W |-> RSq(W[i][j])])
        /\ res.ret[3][j] = Cardinality({i \in DOMAIN W : W[i][j] # <<0, 1>>})

\* the tracers (by index) that the labelling f puts in chunk c, in their order
ChunkOf(objs, f, c) == SelectSeq([i \in DOMAIN objs |-> i], LAMBDA i : f[i] = c)

\* a worker's pass over its chunk: the loop of attribute_weight_density over the
\* chunk's tracers, from zero arrays
RECURSIVE ChunkLoop(_, _, _, _)
ChunkLoop(W, chunk, k, acc) ==
    IF k > Len(chunk) THEN acc
    ELSE ChunkLoop(W, chunk, k + 1,
                   Mat([j \in DOMAIN acc |-> awd_add(acc[j], W[chunk[k]][j])]))
ChunkPass(W, chunk, cps) == awd_return(ChunkLoop(W, chunk, 1, awd_zero(cps)))

\* The ways n tracers are dealt to numbered chunks: every split into two chunks (each
\* of the two taken first, either of them possibly empty), and n chunks of one tracer
\* each, taken in the order of the catalogue and in the reverse order.
Labellings(n) ==
    [1 .. n -> {1, 2}] \cup {[i \in 1 .. n |-> i], [i \in 1 .. n |-> n + 1 - i]}

\* the highest chunk number a labelling of n tracers uses
NChunks(n) == IF n < 2 THEN 2 ELSE n

\* partial arrays added voxel by voxel
AddArrays(p, q) ==
    [val |-> Mat([j \in DOMAIN p.val |-> RAdd(p.val[j], q.val[j])]),
     var |-> Mat([j \in DOMAIN p.var |-> RAdd(p.var[j], q.var[j])]),
     n |-> Mat([j \in DOMAIN p.n |-> p.n[j] + q.n[j]])]

\* the partial arrays of chunks 1 .. c added up, chunk after chunk
RECURSIVE CombineChunks(_, _, _, _, _)
CombineChunks(W, objs, f, c, cps) ==
    IF c = 0 THEN awd_return(awd_zero(cps))
    ELSE IF \A i \in DOMAIN objs : f[i] # c THEN CombineChunks(W, objs, f, c - 1, cps)
    ELSE AddArrays(CombineChunks(W, objs, f, c - 1, cps),
                   ChunkPass(W, ChunkOf(objs, f, c), cps))

\* C15: attribute_weight_density returns, per voxel, the sum over the tracers of the
\* product of the three per-axis weights, the sum of the squares of the products and
\* the number of tracers with a nonzero product; and the tracers split into chunks
\* (every split in two, in either order, and one chunk per tracer, forwards and
\* backwards; a chunk is itself a catalogue, split in its own states), each chunk
\* processed on its own and the partial arrays added, gives the same three arrays as
\* the one pass.  Weights are exact rationals.
\* The call's arguments are values the operator cannot write to, as the loop of the
\* source assigns only to its local arrays.
C15_ChunkedAssignmentAgrees ==
    AssignReturned =>
        \E cps \in {grid_cart(grid)} :
        \E W \in {Products(cps)} :
            /\ Len(res.ret[1]) = Len(cps)
            /\ AssignIsSum(W)
            /\ \A f \in Labellings(Len(call.objs)) :
                  CombineChunks(W, call.objs, f, NChunks(Len(call.objs)), cps)
                      = AssignedArrays

\* three tracers not all at one place under pcs, a voxel that two or more of them
\* reach with a weight sum that is not a whole number
C15_Witness ==
    /\ AssignReturned
    /\ call.kind = "pcs"
    /\ Len(call.objs) = MaxTracers
    /\ call.objs[1] # call.objs[2]
    /\ \E j \in DOMAIN res.ret[1] :
          /\ res.ret[3][j] >= 2
          /\ res.ret[1][j][2] # 1
          /\ res.ret[2][j] # res.ret[1][j]

\* a cut with the n_cut criterion active has returned
NCutReturned == CutReturned /\ ~IsNone(call.n_cut)
\* voxel i of the grid the cut was entered with passes the active criteria other than
\* n_cut
PassesOthers(i) == Satisfies(res.cut_in, i, [call EXCEPT !.n_cut = None])

\* C16: the n_cut criterion of cut_grid, called directly or at the end of
\* grid_data_density, removes the voxels with less than n_cut objects and only those:
\* a voxel with nincell >= n_cut that passes the other active criteria is retained,
\* a voxel with nincell < n_cut is removed.
C16_NCutKeepsAtLeastNCut ==
    NCutReturned =>
        \A i \in 1 .. Len0(res.cut_in) :
            /\ (res.cut_in["nincell"][i] >= Val(call.n_cut) /\ PassesOthers(i)) => res.mask[i]
            /\ res.cut_in["nincell"][i] < Val(call.n_cut) => ~res.mask[i]

\* C17: after attribute_weight_density has processed the tracers of a catalogue, of
\* any length and under any of the five kernels, every voxel has
\* 0 <= var_weights <= sum_weights <= nincell <= number of tracers, and nincell = 0
\* exactly when sum_weights = 0.
C17_AccumulatorsOrdered ==
    AssignReturned =>
        \A j \in DOMAIN res.ret[1] :
            /\ RLe(<<0, 1>>, res.ret[2][j])
            /\ RLe(res.ret[2][j], res.ret[1][j])
            /\ RLe(res.ret[1][j], RInt(res.ret[3][j]))
            /\ res.ret[3][j] <= Len(call.objs)
            /\ res.ret[3][j] = 0 <=> res.ret[1][j] = <<0, 1>>

\* a voxel where all four inequalities are strict, and one no tracer reaches
C17_Witness ==
    /\ AssignReturned
    /\ \E j \in DOMAIN res.ret[1] :
          /\ RLt(<<0, 1>>, res.ret[2][j])
          /\ RLt(res.ret[2][j], res.ret[1][j])
          /\ RLt(res.ret[1][j], RInt(res.ret[3][j]))
          /\ 1 < res.ret[3][j] /\ res.ret[3][j] < Len(call.objs)
    /\ \E j \in DOMAIN res.ret[1] : res.ret[3][j] = 0

====
